---- MODULE Spec2Model ----
(***************************************************************************)
(* GitHub organisation-membership webhook relay for Permit.                *)
(*                                                                         *)
(* Two servers of the repository are modelled:                             *)
(*   variant = "plain" : the handler without a store (src/index.js and     *)
(*                       src/unnamed/part_001);                            *)
(*   variant = "store" : the Redis-backed relay (src/unnamed/part_000,     *)
(*                       lines 598-763) with intake, the 5-minute retry    *)
(*                       sweep and the replay run by the listen callback.  *)
(*                                                                         *)
(* Every `await` of the source is a yield point: a process (one HTTP       *)
(* request, the replay, one sweep) sits at pc = <the call it awaits> and   *)
(* the action that completes the call runs the continuation up to the next *)
(* await.                                                                  *)
(***************************************************************************)
EXTENDS Integers, Sequences, FiniteSets, TLC

\* ---------------------------------------------------------------- bounds
MaxReq    == 1   \* HTTP requests received by a process that found records
MaxBurst  == 2   \* HTTP requests received by a process that found none
MaxSweeps == 1   \* sweep callbacks that may be in flight at once
MaxTicks  == 1   \* clock advances
MaxInit   == 1   \* records already in Redis when the process starts

\* ------------------------------------------------------ program constants
TTL_SECONDS       == 86400
SWEEP_INTERVAL_MS == 5 * 60 * 1000
TTL_MS            == TTL_SECONDS * 1000

\* The clock (Date.now()) when the process starts; records found in Redis at
\* start were written one or more sweep intervals earlier.
StartTime == MaxInit * SWEEP_INTERVAL_MS

\* ------------------------------------------------------------ payloads
\* req.body: action, membership (present or not), membership.user.login,
\* membership.role.  "" stands for a missing (falsy) field.
Payload(a, m, l, r) == [action |-> a, membership |-> m, login |-> l, role |-> r]

NoAction       == Payload("", FALSE, "", "")
Invited        == Payload("member_invited", FALSE, "", "")
Unrecognized   == Payload("member_edited", FALSE, "", "")
AddedOk        == Payload("member_added", TRUE, "alice", "admin")
AddedNoRole    == Payload("member_added", TRUE, "alice", "")
RemovedOk      == Payload("member_removed", TRUE, "alice", "")
RemovedNoMemb  == Payload("member_removed", FALSE, "", "")

Bodies == {NoAction, Invited, Unrecognized, AddedOk, AddedNoRole,
           RemovedOk, RemovedNoMemb}

Principals == {"alice"}

\* JSON.stringify(req.body) / JSON.parse(eventData)
JSONStringify(b) == <<b.action, b.membership, b.login, b.role>>
JSONParse(s)     == Payload(s[1], s[2], s[3], s[4])

\* ------------------------------------------------------------ processes
Reqs   == {<<"req", i>> : i \in 1..MaxBurst}
Replay == <<"replay", 0>>
Sweeps == {<<"sweep", i>> : i \in 1..MaxSweeps}
Passes == {Replay} \cup Sweeps
Procs  == Reqs \cup Passes

\* the handler's promise rejected before any res.status(): no response is sent
NoResponse == 0 - 1

VARIABLES
  variant,    \* which server runs: "plain" or "store"
  started,    \* app.listen's callback has run
  now,        \* Date.now()
  ticks,      \* clock advances so far
  sweepDue,   \* the setInterval period has elapsed since the timer last fired
  store,      \* Redis: eventId -> [value, expiresAt]
  users,      \* Permit: principal -> [exists, roles]
  proc,       \* per process: pc, key, body, keys, res, saved, fail, failed
  applied,    \* history: eventIds of attempts whose backend calls all succeeded
  initial,    \* history: the records Redis held when the process started
  faults,     \* environment: Redis and the PDP may reject calls in this run
  budget      \* environment: HTTP requests the process will still receive

vars == <<variant, started, now, ticks, sweepDue, store, users, proc, applied,
          initial, faults, budget>>

\* pc:    "idle", the awaited call ("set", "keys", "get", "createUser",
\*        "assignRole", "deleteUser", "del"), "done", or "aborted" (a pass
\*        whose redis.keys / redis.get was rejected)
\* key:   eventId of the record being handled
\* body:  the payload being handled
\* keys:  the keys a pass has still to visit
\* res:   HTTP status sent (0: none yet)
\* saved: the intake's redis.set was acknowledged
\* fail:  why the current attempt failed ("" if it did not): the error of a
\*        backend call, or "invalid" for the helper's validation error
\* failed: history of a pass: an earlier attempt of this pass failed
Idle == [pc |-> "idle", key |-> 0, body |-> NoAction, keys |-> <<>>,
         res |-> 0, saved |-> FALSE, fail |-> "", failed |-> FALSE]

RECURSIVE Orders(_)
\* redis.keys("event:*") returns the keys in an unspecified order
Orders(S) == IF S = {} THEN {<<>>}
             ELSE UNION {{<<k>> \o s : s \in Orders(S \ {k})} : k \in S}

\* Records persisted by an earlier run of the process
InitKeys == {StartTime - j * SWEEP_INTERVAL_MS : j \in 1..MaxInit}
InitStores ==
  UNION {[S -> {[value |-> JSONStringify(b), expiresAt |-> 0] : b \in Bodies}]
          : S \in SUBSET InitKeys}
\* Mutant of ExpiresAt: the expiry is given in milliseconds (PX for EX)
ExpiresAt_Milliseconds(t) == t + TTL_SECONDS

\* redis.set(eventId, value, "EX", 86400) at clock t: the key lives until
ExpiresAt(t) == t + TTL_MS
Stamp(f) == [k \in DOMAIN f |-> [f[k] EXCEPT !.expiresAt = ExpiresAt(k)]]

\* the state after construction, for a process that finds one of `stores` in
\* Redis, will receive n requests, and runs in an environment that may
\* (flt = TRUE) or may not reject calls
Start(stores, n, flt) ==
  /\ variant \in {"plain", "store"}
  /\ started = FALSE
  /\ now = StartTime
  /\ ticks = 0
  /\ sweepDue = FALSE
  /\ \E f \in stores : /\ store = Stamp(f)
                       /\ variant = "plain" => DOMAIN f = {}
  /\ initial = store
  /\ faults \in flt
  /\ budget = n
  /\ users = [u \in Principals |-> [exists |-> FALSE, roles |-> {}]]
  /\ proc = [p \in Procs |-> Idle]
  /\ applied = {}

Init == Start(InitStores, MaxReq, BOOLEAN)

\* a process that finds Redis empty and receives a burst of requests while
\* Redis and the PDP answer every call
InitBurst == Start({f \in InitStores : DOMAIN f = {}}, MaxBurst, {FALSE})

\* ----------------------------------------------------- delivery (dispatch)
\* Mutant of createPermitUserAssignRole: the validation is missing
createPermitUserAssignRole_NoValidation(body) == "createUser"

\* createPermitUserAssignRole up to its first await: the validation throws,
\* or permit.api.createUser is called
createPermitUserAssignRole(body) ==
  IF ~body.membership \/ body.login = "" \/ body.role = ""
  THEN "throw" ELSE "createUser"

\* removePermitUser up to its first await
removePermitUser(body) ==
  IF ~body.membership \/ body.login = "" THEN "throw" ELSE "deleteUser"

\* Mutant of SwitchAction: member_invited lacks its own case and runs the
\* member_added branch's backend call
SwitchAction_InvitedCallsBackend(body) ==
  CASE body.action \in {"member_invited", "member_added"} -> "createUser"
    [] body.action = "member_removed" -> removePermitUser(body)
    [] OTHER                          -> "break"

\* the switch on action, shared by the plain handler and processMembershipEvent
SwitchAction(body) ==
  CASE body.action = "member_invited" -> "return"
    [] body.action = "member_added"   -> createPermitUserAssignRole(body)
    [] body.action = "member_removed" -> removePermitUser(body)
    [] OTHER                          -> "break"

\* Mutant of processMembershipEvent: the member_removed case returns like
\* the member_invited case, before the helper and redis.del
processMembershipEvent_RemovedReturns(body) ==
  IF body.action \in {"", "member_removed"} THEN "return"
  ELSE LET s == SwitchAction(body) IN
       CASE s = "throw" -> "catch"
         [] s = "break" -> "del"
         [] OTHER       -> s

\* processMembershipEvent up to its first await:
\*   "return"  - no action, or member_invited: returns without redis.del
\*   "catch"   - a helper threw: logged, the record is kept
\*   "createUser" / "deleteUser" - awaiting the backend call
\*   "del"     - default branch: falls through to redis.del
processMembershipEvent(body) ==
  IF body.action = "" THEN "return"
  ELSE LET s == SwitchAction(body) IN
       CASE s = "throw" -> "catch"
         [] s = "break" -> "del"
         [] OTHER       -> s

\* Mutant of Returned: a failed attempt propagates out of the pass's loop
Returned_StopsAfterFailure(st, isReq) ==
  IF isReq THEN [st EXCEPT !.pc = "done", !.res = 200]
  ELSE IF st.keys = <<>> \/ st.fail # ""
       THEN [Idle EXCEPT !.pc = "done", !.body = st.body, !.failed = st.fail # ""]
  ELSE [st EXCEPT !.pc = "get", !.key = Head(st.keys), !.keys = Tail(st.keys),
                  !.fail = ""]

\* the caller's continuation once processMembershipEvent has returned:
\* the intake answers 200, a pass goes on with its next key
Returned(st, isReq) ==
  LET f == st.failed \/ st.fail # "" IN
  IF isReq THEN [st EXCEPT !.pc = "done", !.res = 200]
  ELSE IF st.keys = <<>>
       THEN [Idle EXCEPT !.pc = "done", !.body = st.body, !.failed = f]
  ELSE [st EXCEPT !.pc = "get", !.key = Head(st.keys), !.keys = Tail(st.keys),
                  !.fail = "", !.failed = f]

\* call processMembershipEvent(key, body) and run to the next await
Enter(st, body, isReq) ==
  LET d  == processMembershipEvent(body)
      s1 == [st EXCEPT !.body = body, !.fail = ""]
  IN CASE d = "return" -> Returned(s1, isReq)
       [] d = "catch"  -> Returned([s1 EXCEPT !.fail = "invalid"], isReq)
       [] OTHER        -> [s1 EXCEPT !.pc = d]

\* Mutant of AfterHelper: an already-exists error of createUser is thrown on
\* to processMembershipEvent's catch, which keeps the record as failed
AfterHelper_RethrowsConflict(st, why) ==
  LET s1 == [st EXCEPT !.fail = why] IN
  IF why = "conflict" THEN [s1 EXCEPT !.pc = "done", !.res = 500]
  ELSE IF variant = "plain" THEN [s1 EXCEPT !.pc = "done", !.res = 200]
  ELSE [s1 EXCEPT !.pc = "del"]

\* Mutant of AfterHelper: an already-absent error of deleteUser is thrown on
\* to processMembershipEvent's catch, which keeps the record for retry
AfterHelper_RethrowsNotFound(st, why) ==
  LET s1 == [st EXCEPT !.fail = why] IN
  IF why = "notfound" /\ st.pc = "deleteUser"
  THEN [s1 EXCEPT !.pc = "done", !.res = 200]
  ELSE IF variant = "plain" THEN [s1 EXCEPT !.pc = "done", !.res = 200]
  ELSE [s1 EXCEPT !.pc = "del"]

\* after the backend calls of a helper (a failed call was caught and logged
\* inside the helper): the store relay goes on to redis.del, the plain
\* handler answers 200
AfterHelper(st, why) ==
  LET s1 == [st EXCEPT !.fail = why] IN
  IF variant = "plain" THEN [s1 EXCEPT !.pc = "done", !.res = 200]
  ELSE [s1 EXCEPT !.pc = "del"]

\* ------------------------------------------------------------- backend
\* The outcome of a Permit call, given whether the PDP can be reached:
\* "" is success, anything else is the error the SDK throws.
\* permit.api.createUser({key})
CreateUser(u, reach) ==
  IF ~reach THEN "unreachable"
  ELSE IF users[u].exists THEN "conflict" ELSE ""
\* permit.api.assignRole({user, role, tenant})
AssignRole(u, reach) ==
  IF ~reach THEN "unreachable"
  ELSE IF ~users[u].exists THEN "notfound" ELSE ""
\* permit.api.deleteUser(key)
DeleteUser(u, reach) ==
  IF ~reach THEN "unreachable"
  ELSE IF ~users[u].exists THEN "notfound" ELSE ""

\* ------------------------------------------------------------ start-up
\* Mutant of Listen: the callback only registers the sweep timer, so the
\* records found at start wait for its first tick
Listen_TimerOnly ==
  /\ ~started
  /\ started' = TRUE
  /\ sweepDue' = FALSE
  /\ proc' = proc
  /\ UNCHANGED <<variant, initial, faults, budget, now, ticks, store, users, applied>>

\* app.listen(PORT, callback): the store relay registers the sweep timer and
\* starts the replay with redis.keys; the plain server only logs
Listen ==
  /\ ~started
  /\ started' = TRUE
  /\ sweepDue' = FALSE
  /\ IF variant = "store"
     THEN proc' = [proc EXCEPT ![Replay].pc = "keys"]
     ELSE proc' = proc
  /\ UNCHANGED <<variant, initial, faults, budget, now, ticks, store, users, applied>>

\* Mutant of FreeSlot: the server handles one thing at a time: no request is
\* taken while another handler, the replay or a sweep is in progress
FreeSlot_OneAtATime(r) ==
  /\ proc[r].pc = "idle"
  /\ \A i \in 1..(r[2] - 1) : proc[<<"req", i>>].pc # "idle"
  /\ \A p \in Procs : proc[p].pc \in {"idle", "done", "aborted"}

\* request slots are used in order
FreeSlot(r) ==
  /\ proc[r].pc = "idle"
  /\ \A i \in 1..(r[2] - 1) : proc[<<"req", i>>].pc # "idle"

\* ------------------------------------------------- intake, store relay
\* app.post("/github-membership") up to `await redis.set(...)`:
\* eventId = `event:${Date.now()}`, SET eventId JSON EX 86400.
\* up: Redis acknowledges the command.
PostGithubMembership(r, body, up) ==
  /\ variant = "store" /\ started /\ FreeSlot(r)
  /\ budget > 0 /\ budget' = budget - 1
  /\ faults \/ up
  /\ IF up
     THEN /\ store' = [k \in DOMAIN store \cup {now} |->
                        IF k = now
                        THEN [value |-> JSONStringify(body),
                              expiresAt |-> ExpiresAt(now)]
                        ELSE store[k]]
          /\ proc' = [proc EXCEPT ![r] = [Idle EXCEPT !.pc = "set", !.key = now,
                                           !.body = body, !.saved = TRUE]]
     ELSE /\ store' = store
          /\ proc' = [proc EXCEPT ![r] = [Idle EXCEPT !.pc = "set", !.key = now,
                                           !.body = body]]
  /\ UNCHANGED <<variant, initial, faults, started, now, ticks, sweepDue, users, applied>>

\* Mutant of AfterSet: the handler goes on although the SET was rejected
AfterSet_IgnoresRejectedSet(saved, body) ==
  IF body.action = "" THEN "400" ELSE "process"

\* the handler's continuation after redis.set, given whether the SET was
\* acknowledged: a rejected SET rejects the handler ("reject"), a missing
\* action answers 400, anything else calls processMembershipEvent
AfterSet(saved, body) ==
  IF ~saved THEN "reject"
  ELSE IF body.action = "" THEN "400"
  ELSE "process"

\* the continuation of `await redis.set(...)`
SetDone(r) ==
  /\ r \in Reqs /\ proc[r].pc = "set"
  /\ LET a == AfterSet(proc[r].saved, proc[r].body) IN
     CASE a = "reject" ->
            \* no try/catch around redis.set: Express 5 answers 500, Express 4
            \* leaves the request unanswered
            \E s \in {500, NoResponse} :
              proc' = [proc EXCEPT ![r].pc = "done", ![r].res = s]
       [] a = "400" ->
            proc' = [proc EXCEPT ![r].pc = "done", ![r].res = 400]
       [] OTHER ->
            proc' = [proc EXCEPT ![r] = Enter(proc[r], proc[r].body, TRUE)]
  /\ UNCHANGED <<variant, initial, faults, budget, started, now, ticks, sweepDue, store, users, applied>>

\* ------------------------------------------------- intake, plain server
\* the plain handler up to its first await or its response
PlainHandler(body) ==
  IF body.action = "" THEN "400"
  ELSE LET s == SwitchAction(body) IN
       CASE s = "return" -> "200"
         [] s = "break"  -> "200"
         [] s = "throw"  -> "500"
         [] OTHER        -> s

PlainPost(r, body) ==
  /\ variant = "plain" /\ started /\ FreeSlot(r)
  /\ budget > 0 /\ budget' = budget - 1
  /\ LET h  == PlainHandler(body)
         s1 == [Idle EXCEPT !.body = body]
     IN proc' = [proc EXCEPT ![r] =
          CASE h = "400" -> [s1 EXCEPT !.pc = "done", !.res = 400]
            [] h = "200" -> [s1 EXCEPT !.pc = "done", !.res = 200]
            [] h = "500" -> [s1 EXCEPT !.pc = "done", !.res = 500]
            [] OTHER     -> [s1 EXCEPT !.pc = h]]
  /\ UNCHANGED <<variant, initial, faults, started, now, ticks, sweepDue, store, users, applied>>

\* --------------------------------------------------- backend call steps
\* permit.api.createUser answers.  A failure is caught inside
\* createPermitUserAssignRole, which then returns normally.
CreateUserDone(p, reach) ==
  /\ faults \/ reach
  /\ proc[p].pc = "createUser"
  /\ LET u == proc[p].body.login
         e == CreateUser(u, reach)
     IN IF e = ""
        THEN /\ users' = [users EXCEPT ![u].exists = TRUE]
             /\ proc' = [proc EXCEPT ![p].pc = "assignRole"]
        ELSE /\ users' = users
             /\ proc' = [proc EXCEPT ![p] = AfterHelper(proc[p], e)]
  /\ UNCHANGED <<variant, initial, faults, budget, started, now, ticks, sweepDue, store, applied>>

\* permit.api.assignRole answers
AssignRoleDone(p, reach) ==
  /\ faults \/ reach
  /\ proc[p].pc = "assignRole"
  /\ LET u == proc[p].body.login
         e == AssignRole(u, reach)
     IN /\ users' = IF e = ""
                    THEN [users EXCEPT ![u].roles = @ \cup {proc[p].body.role}]
                    ELSE users
        /\ applied' = IF e = "" THEN applied \cup {proc[p].key} ELSE applied
        /\ proc' = [proc EXCEPT ![p] = AfterHelper(proc[p], e)]
  /\ UNCHANGED <<variant, initial, faults, budget, started, now, ticks, sweepDue, store>>

\* permit.api.deleteUser answers.  A failure is caught inside removePermitUser.
DeleteUserDone(p, reach) ==
  /\ faults \/ reach
  /\ proc[p].pc = "deleteUser"
  /\ LET u == proc[p].body.login
         e == DeleteUser(u, reach)
     IN /\ users' = IF e = ""
                    THEN [users EXCEPT ![u] = [exists |-> FALSE, roles |-> {}]]
                    ELSE users
        /\ applied' = IF e = "" THEN applied \cup {proc[p].key} ELSE applied
        /\ proc' = [proc EXCEPT ![p] = AfterHelper(proc[p], e)]
  /\ UNCHANGED <<variant, initial, faults, budget, started, now, ticks, sweepDue, store>>

\* Mutant of DelDone: after a failed attempt the record is written again
\* with a fresh EX 86400 instead of being deleted
DelDone_RefreshesAfterFailure(p, up) ==
  /\ faults \/ up
  /\ proc[p].pc = "del"
  /\ store' = IF ~up THEN store
              ELSE IF proc[p].fail # "" /\ proc[p].key \in DOMAIN store
              THEN [store EXCEPT ![proc[p].key].expiresAt = ExpiresAt(now)]
              ELSE [k \in DOMAIN store \ {proc[p].key} |-> store[k]]
  /\ proc' = [proc EXCEPT ![p] = Returned(proc[p], p \in Reqs)]
  /\ UNCHANGED <<variant, initial, faults, budget, started, now, ticks, sweepDue, users, applied>>

\* Mutant of DelDone: a DEL that finds its key already gone is treated as an
\* error that ends the caller
DelDone_MissingKeyThrows(p, up) ==
  /\ faults \/ up
  /\ proc[p].pc = "del"
  /\ store' = IF up
              THEN [k \in DOMAIN store \ {proc[p].key} |-> store[k]]
              ELSE store
  /\ proc' = [proc EXCEPT ![p] =
                IF proc[p].key \in DOMAIN store
                THEN Returned(proc[p], p \in Reqs)
                ELSE [Idle EXCEPT !.pc = "aborted", !.body = proc[p].body]]
  /\ UNCHANGED <<variant, initial, faults, budget, started, now, ticks, sweepDue, users, applied>>

\* `await redis.del(eventId)` answers; a rejected DEL is caught by
\* processMembershipEvent.  Then processMembershipEvent returns.
DelDone(p, up) ==
  /\ faults \/ up
  /\ proc[p].pc = "del"
  /\ store' = IF up
              THEN [k \in DOMAIN store \ {proc[p].key} |-> store[k]]
              ELSE store
  /\ proc' = [proc EXCEPT ![p] = Returned(proc[p], p \in Reqs)]
  /\ UNCHANGED <<variant, initial, faults, budget, started, now, ticks, sweepDue, users, applied>>

\* ------------------------------------------------------ sweep and replay
\* Mutant of SweepFire: the timer callback waits until the replay has ended
SweepFire_WaitsForReplay(p) ==
  /\ p \in Sweeps /\ variant = "store" /\ started
  /\ sweepDue
  /\ proc[Replay].pc \in {"done", "aborted"}
  /\ proc[p].pc \in {"idle", "done", "aborted"}
  /\ sweepDue' = FALSE
  /\ proc' = [proc EXCEPT ![p] = [Idle EXCEPT !.pc = "keys"]]
  /\ UNCHANGED <<variant, initial, faults, budget, started, now, ticks, store, users, applied>>

\* the setInterval timer fires: the callback calls redis.keys("event:*")
SweepFire(p) ==
  /\ p \in Sweeps /\ variant = "store" /\ started
  /\ sweepDue
  /\ proc[p].pc \in {"idle", "done", "aborted"}
  /\ sweepDue' = FALSE
  /\ proc' = [proc EXCEPT ![p] = [Idle EXCEPT !.pc = "keys"]]
  /\ UNCHANGED <<variant, initial, faults, budget, started, now, ticks, store, users, applied>>

\* redis.keys answers; a rejection leaves the async callback (the pass ends)
KeysDone(p, up) ==
  /\ faults \/ up
  /\ p \in Passes /\ proc[p].pc = "keys"
  /\ IF up
     THEN \E ks \in Orders(DOMAIN store) :
            proc' = [proc EXCEPT ![p] = Returned([proc[p] EXCEPT !.keys = ks], FALSE)]
     ELSE proc' = [proc EXCEPT ![p] = [Idle EXCEPT !.pc = "aborted"]]
  /\ UNCHANGED <<variant, initial, faults, budget, started, now, ticks, sweepDue, store, users, applied>>

\* Mutant of GetDone: once an attempt of the pass has failed, the pass backs
\* off and reads the remaining records without attempting them
GetDone_BacksOffAfterFailure(p, up) ==
  /\ faults \/ up
  /\ p \in Passes /\ proc[p].pc = "get"
  /\ proc' = [proc EXCEPT ![p] =
       IF ~up THEN [Idle EXCEPT !.pc = "aborted", !.body = proc[p].body,
                                !.failed = proc[p].failed]
       ELSE IF proc[p].key \notin DOMAIN store \/ proc[p].failed
            THEN Returned(proc[p], FALSE)
       ELSE Enter(proc[p], JSONParse(store[proc[p].key].value), FALSE)]
  /\ UNCHANGED <<variant, initial, faults, budget, started, now, ticks, sweepDue, store, users, applied>>

\* Mutant of GetDone: the `if (eventData)` check is missing, so a key that is
\* gone hands null to processMembershipEvent, whose body.action throws out of
\* the pass
GetDone_NoNullCheck(p, up) ==
  /\ faults \/ up
  /\ p \in Passes /\ proc[p].pc = "get"
  /\ proc' = [proc EXCEPT ![p] =
       IF ~up \/ proc[p].key \notin DOMAIN store
       THEN [Idle EXCEPT !.pc = "aborted", !.body = proc[p].body,
                         !.failed = proc[p].failed]
       ELSE Enter(proc[p], JSONParse(store[proc[p].key].value), FALSE)]
  /\ UNCHANGED <<variant, initial, faults, budget, started, now, ticks, sweepDue, store, users, applied>>

\* redis.get answers: a key that is gone is skipped, a value is parsed and
\* handed to processMembershipEvent; a rejection leaves the callback
GetDone(p, up) ==
  /\ faults \/ up
  /\ p \in Passes /\ proc[p].pc = "get"
  /\ proc' = [proc EXCEPT ![p] =
       IF ~up THEN [Idle EXCEPT !.pc = "aborted", !.body = proc[p].body,
                                !.failed = proc[p].failed]
       ELSE IF proc[p].key \notin DOMAIN store THEN Returned(proc[p], FALSE)
       ELSE Enter(proc[p], JSONParse(store[proc[p].key].value), FALSE)]
  /\ UNCHANGED <<variant, initial, faults, budget, started, now, ticks, sweepDue, store, users, applied>>

\* ---------------------------------------------------------- environment
\* time passes; Redis drops the keys whose EX 86400 has run out
Tick(dt) ==
  /\ ticks < MaxTicks
  /\ ticks' = ticks + 1
  /\ now' = now + dt
  /\ sweepDue' = TRUE
  /\ store' = [k \in {x \in DOMAIN store : store[x].expiresAt > now + dt} |-> store[k]]
  /\ UNCHANGED <<variant, initial, faults, budget, started, users, proc, applied>>

Next ==
  \/ Listen
  \/ \E r \in Reqs, b \in Bodies, up \in BOOLEAN : PostGithubMembership(r, b, up)
  \/ \E r \in Reqs : SetDone(r)
  \/ \E r \in Reqs, b \in Bodies : PlainPost(r, b)
  \/ \E p \in Procs, reach \in BOOLEAN : CreateUserDone(p, reach)
  \/ \E p \in Procs, reach \in BOOLEAN : AssignRoleDone(p, reach)
  \/ \E p \in Procs, reach \in BOOLEAN : DeleteUserDone(p, reach)
  \/ \E p \in Procs, up \in BOOLEAN : DelDone(p, up)
  \/ \E p \in Sweeps : SweepFire(p)
  \/ \E p \in Passes, up \in BOOLEAN : KeysDone(p, up)
  \/ \E p \in Passes, up \in BOOLEAN : GetDone(p, up)
  \/ \E dt \in {SWEEP_INTERVAL_MS, TTL_MS} : Tick(dt)

Spec == Init /\ [][Next]_vars

SpecBurst == InitBurst /\ [][Next]_vars

\* a process that finds records in Redis and receives a request while Redis
\* and the PDP answer every call they answer at all
InitLive == Start(InitStores, MaxReq, {FALSE})

\* one step of a sweep callback: the timer fires, or the call the callback
\* awaits is answered
SweepRuns ==
  \E p \in Sweeps, x \in BOOLEAN :
    \/ SweepFire(p) \/ KeysDone(p, x) \/ GetDone(p, x) \/ DelDone(p, x)
    \/ CreateUserDone(p, x) \/ AssignRoleDone(p, x) \/ DeleteUserDone(p, x)

\* The listen callback runs, the clock advances, and the calls awaited by a
\* sweep callback are answered.  The calls awaited by the replay and by the
\* request handlers may never return.
Fairness ==
  /\ WF_vars(Listen)
  /\ WF_vars(\E dt \in {SWEEP_INTERVAL_MS, TTL_MS} : Tick(dt))
  /\ WF_vars(SweepRuns)

SpecLive == InitLive /\ [][Next]_vars /\ Fairness

\* ======================================================================
\* Vocabulary of the properties
\* ======================================================================
IsGrant(b)  == b.action \in {"member_added", "member_removed"}
IsIgnore(b) == b.action # "" /\ ~IsGrant(b)
WellFormed(b) ==
  /\ b.membership /\ b.login # ""
  /\ b.action = "member_added" => b.role # ""
Invalid(b)  == IsGrant(b) /\ ~WellFormed(b)
InCall(st)  == st.pc \in {"createUser", "assignRole", "deleteUser"}
Pending(k)  == k \in DOMAIN store
Expired(k)  == now >= k + TTL_MS
\* the intake of request r has finished and its redis.set was acknowledged
Recorded(r) == variant = "store" /\ proc[r].pc = "done" /\ proc[r].saved
\* no other request wrote the eventId of r
OwnKey(r)   == \A q \in Reqs \ {r} : proc[q].pc = "idle" \/ proc[q].key # proc[r].key

\* ----------------------------------------------------------------- C1
\* C1 (as claimed): no accepted event is lost.  A member_added or
\* member_removed event accepted while the backend was unreachable is, until
\* its TTL runs out, either still pending in the store or already applied to
\* the backend; otherwise no later sweep can ever apply it.
C1_NoAcceptedEventLost ==
  \A r \in Reqs :
    (Recorded(r) /\ IsGrant(proc[r].body) /\ WellFormed(proc[r].body)
       /\ proc[r].fail = "unreachable" /\ ~Expired(proc[r].key))
    => (Pending(proc[r].key) \/ proc[r].key \in applied)

\* ----------------------------------------------------------------- C2
\* C2 (as claimed): a member_added or member_removed record is deleted only
\* after an attempt in which every backend call succeeded: the step in which
\* a process's redis.del removes the record follows an attempt without a
\* failed call.
C2_DeleteOnlyAfterSuccess ==
  [][\A p \in Procs :
       (/\ proc[p].pc = "del" /\ proc'[p].pc # "del"
        /\ IsGrant(proc[p].body)
        /\ Pending(proc[p].key) /\ proc[p].key \notin DOMAIN store')
       => proc[p].fail = ""]_vars

\* ----------------------------------------------------------------- C3
\* C3 (as claimed): a structurally invalid record is removed from the store
\* by its first delivery attempt.
C3_InvalidRemovedAfterFirstAttempt ==
  \A r \in Reqs :
    (Recorded(r) /\ Invalid(proc[r].body) /\ ~Expired(proc[r].key))
    => ~Pending(proc[r].key)

\* C3 (amended): a structurally invalid record is a validation failure that
\* issues no backend call and no redis.del: the attempt (intake, sweep or
\* replay) leaves the record in the store, the intake still answers 200, and
\* the record stays pending for the next sweep until its TTL runs out.
C3_InvalidKeptForRetry ==
  /\ \A p \in Procs :
       Invalid(proc[p].body) => ~InCall(proc[p]) /\ proc[p].pc # "del"
  /\ \A r \in Reqs :
       (Recorded(r) /\ Invalid(proc[r].body)) =>
          /\ proc[r].res = 200
          /\ (~Expired(proc[r].key) /\ OwnKey(r)) =>
                /\ Pending(proc[r].key)
                /\ JSONParse(store[proc[r].key].value) = proc[r].body

\* C3 witness: the intake attempted an invalid record and answered, a sweep
\* attempted it again, and the record is still in the store.
C3_Witness ==
  \E r \in Reqs, p \in Sweeps :
    /\ Recorded(r) /\ Invalid(proc[r].body) /\ Pending(proc[r].key)
    /\ DOMAIN store = {proc[r].key}
    /\ proc[p].pc = "done" /\ proc[p].body = proc[r].body

\* ----------------------------------------------------------------- C4
\* C4: intake persists before it delivers.  A request that has a backend
\* call in flight, has had one fail, or has reached redis.del has had its
\* record written to the store by an acknowledged redis.set.
C4_PersistBeforeDeliver ==
  \A r \in Reqs :
    (variant = "store"
       /\ (InCall(proc[r]) \/ proc[r].pc = "del" \/ proc[r].fail # ""
             \/ (proc[r].pc = "done" /\ proc[r].res = 200)))
    => proc[r].saved

\* C4 witness: a request's first backend call is in flight and its record is
\* in the store.
C4_Witness ==
  \E r \in Reqs :
    /\ variant = "store" /\ proc[r].pc \in {"createUser", "deleteUser"}
    /\ proc[r].saved /\ Pending(proc[r].key)
    /\ JSONParse(store[proc[r].key].value) = proc[r].body

\* ----------------------------------------------------------------- C5
\* C5 (as claimed): a payload without an action is rejected before
\* persistence: a request answered 400 for a missing action wrote nothing to
\* the store.
C5_RejectedBeforePersistence ==
  \A r \in Reqs :
    (proc[r].pc = "done" /\ proc[r].body.action = "" /\ proc[r].res = 400)
    => (~proc[r].saved /\ ~Pending(proc[r].key))

\* ----------------------------------------------------------------- C6
\* C6 (as claimed): a payload without an action always gets the 400
\* response and never has a backend call, in both servers.
C6_NoActionAlways400 ==
  \A r \in Reqs :
    proc[r].body.action = "" =>
      /\ ~InCall(proc[r])
      /\ proc[r].pc = "done" => proc[r].res = 400

\* ----------------------------------------------------------------- C7
\* C7 (as claimed): a request that ends with a non-success status left no
\* record in the store, and a request whose event was recorded and attempted
\* ends with success.
C7_FailureOnlyWhenNotRecorded ==
  \A r \in Reqs :
    (variant = "store" /\ proc[r].pc = "done")
    => (proc[r].res # 200 <=> ~proc[r].saved)

\* ----------------------------------------------------------------- C8
\* C8 (as claimed): when the backend is unreachable at the intake of a
\* member_added event, the intake answers 500 and the record remains pending
\* (until a later pass delivers it or its TTL runs out).
C8_UnreachableAtIntake ==
  \A r \in Reqs :
    (Recorded(r) /\ proc[r].body.action = "member_added"
       /\ proc[r].fail = "unreachable")
    => /\ proc[r].res = 500
       /\ (Pending(proc[r].key) \/ proc[r].key \in applied
             \/ Expired(proc[r].key))

\* ----------------------------------------------------------------- C9
\* C9 (as claimed): after the intake of a member_invited or unrecognized
\* event has completed, its record is no longer in the store.
C9_IgnoreRecordDeleted ==
  \A r \in Reqs :
    (Recorded(r) /\ IsIgnore(proc[r].body)) => ~Pending(proc[r].key)

\* ----------------------------------------------------------------- C10
\* C10: processing a member_invited or unrecognized event never issues a
\* backend call, at intake (either server), in a sweep or in the replay.
C10_IgnoreNoBackendCall ==
  \A p \in Procs :
    IsIgnore(proc[p].body) => (~InCall(proc[p]) /\ proc[p].fail = "")

\* C10 witness: the intake has answered an ignore event and a pass has
\* processed an ignore record, and the backend is untouched.
C10_Witness ==
  \E r \in Reqs, p \in Passes :
    /\ proc[r].pc = "done" /\ IsIgnore(proc[r].body) /\ proc[r].res = 200
    /\ proc[p].pc = "done" /\ IsIgnore(proc[p].body)
    /\ \A u \in Principals : ~users[u].exists

InitialBody(k) == JSONParse(initial[k].value)
\* the attempt on record k reported success: every backend call of one of
\* its attempts succeeded, or the event needs none
Delivered(k) == k \in applied \/ IsIgnore(InitialBody(k))

\* C12 (as claimed): replay completeness.  Once the replay has completed,
\* every record that was in the store at start and has not outlived its TTL
\* is either delivered or still pending (a record whose delivery failed is
\* kept), and, when Redis answers every command, every delivered record has
\* been deleted.
C12_ReplayCompleteness ==
  proc[Replay].pc = "done" =>
    \A k \in DOMAIN initial :
      ~Expired(k) =>
        /\ Pending(k) \/ Delivered(k)
        /\ (~faults /\ Delivered(k)) => ~Pending(k)

\* ----------------------------------------------------------------- C13
Range(s) == {s[i] : i \in DOMAIN s}
\* the keys a pass has still to read, the one being read included
Listed(st) == IF st.pc = "get" THEN {st.key} \cup Range(st.keys) ELSE {}

\* C13: the replay runs exactly once per process start and attempts every
\* record that was in the store at start, without waiting for the sweep
\* timer.  The step in which the server starts listening starts the replay's
\* redis.keys (no clock tick is needed); a replay that has ended never starts
\* again; the enumeration, unless Redis rejects it, lists every record in the
\* store, which before any clock tick includes every record found at start;
\* and every listed record that is still there when the replay reads it is
\* handed to processMembershipEvent, unless Redis rejects the read.
C13_ReplayOnceAtStart ==
  [][/\ (~started /\ started' /\ variant = "store")
          => (proc'[Replay].pc = "keys" /\ ~sweepDue')
     /\ (started /\ variant = "store") => proc[Replay].pc # "idle"
     /\ proc[Replay].pc \in {"done", "aborted"} => proc'[Replay] = proc[Replay]
     /\ (proc[Replay].pc = "keys" /\ ticks = 0)
          => DOMAIN initial \subseteq DOMAIN store
     /\ (proc[Replay].pc = "keys" /\ proc'[Replay].pc \notin {"keys", "aborted"})
          => /\ Listed(proc'[Replay]) = DOMAIN store
             /\ proc'[Replay].pc = "done" <=> DOMAIN store = {}
     /\ (/\ proc[Replay].pc = "get" /\ proc'[Replay] # proc[Replay]
         /\ proc'[Replay].pc # "aborted" /\ Pending(proc[Replay].key))
          => proc'[Replay].body = JSONParse(store[proc[Replay].key].value)]_vars

\* C13 witness: before the clock has advanced at all (the sweep timer has
\* never fired) the replay has attempted and delivered a record found at
\* start, and has ended.
C13_Witness ==
  /\ proc[Replay].pc = "done" /\ ticks = 0 /\ ~sweepDue
  /\ \A p \in Sweeps : proc[p].pc = "idle"
  /\ \E k \in DOMAIN initial :
       proc[Replay].body = InitialBody(k) /\ k \in applied

\* ----------------------------------------------------------------- C14
\* the replay has ended (completed, or ended by a rejected Redis command)
ReplayOver == proc[Replay].pc \in {"done", "aborted"}

\* C14 (as claimed): the replay completes before the process accepts new
\* intake: no request is accepted (its handler started) while the replay is
\* in progress.
C14_ReplayBeforeIntake ==
  [][\A r \in Reqs :
       (variant = "store" /\ proc[r].pc = "idle" /\ proc'[r].pc # "idle")
       => ReplayOver]_vars

\* C14 (amended): the replay starts in the step in which the server starts
\* listening and runs concurrently with intake: a request is accepted only
\* once the replay has been started, but it need not have ended, and a
\* request accepted while the replay is in progress is persisted and
\* delivered by its own handler in the usual way.
C14_ReplayConcurrentWithIntake ==
  [][\A r \in Reqs :
       (variant = "store" /\ proc[r].pc = "idle" /\ proc'[r].pc # "idle")
       => /\ started /\ proc[Replay].pc # "idle"
          /\ proc'[Replay] = proc[Replay]
          /\ proc'[r].pc = "set" /\ proc'[r].key = now
          /\ proc'[r].saved => /\ now \in DOMAIN store'
                               /\ JSONParse(store'[now].value) = proc'[r].body]_vars

\* C14 witness: a request has been persisted and is at its first backend
\* call while the replay is still reading the records found at start.
C14_Witness ==
  \E r \in Reqs :
    /\ proc[Replay].pc \in {"keys", "get"}
    /\ proc[r].saved /\ proc[r].pc \in {"createUser", "deleteUser"}
    /\ Pending(proc[r].key)

\* ----------------------------------------------------------------- C15
\* C15: every record carries a TTL of 86400 s counted from its creation (its
\* eventId is the creation clock), no attempt, sweep or replay changes it,
\* and a record that has outlived it is out of the store: no enumeration
\* returns it and no delivery attempt starts on it.  Once written, a
\* record's value and expiry change only through an intake's redis.set.
C15_TtlFromCreation ==
  [][/\ \A k \in DOMAIN store' :
          /\ store'[k].expiresAt = k + TTL_SECONDS * 1000
          /\ ~Expired(k)'
     /\ \A k \in DOMAIN store \cap DOMAIN store' :
          store'[k] # store[k] =>
            \E r \in Reqs : proc[r].pc = "idle" /\ proc'[r].pc = "set"
     /\ \A p \in Passes :
          /\ proc[p].pc = "keys" => \A k \in Listed(proc'[p]) : ~Expired(k)
          /\ (proc[p].pc = "get" /\ proc'[p].pc \in {"createUser", "deleteUser", "del"})
               => ~Expired(proc[p].key)]_vars

\* C15 witness: a record that no attempt ever deletes (it has no action) was
\* read by a sweep, outlived its TTL, and is gone from the store.
C15_Witness ==
  \E k \in DOMAIN initial, p \in Sweeps :
    /\ InitialBody(k) = NoAction /\ Expired(k) /\ ~Pending(k)
    /\ proc[Replay].pc = "done" /\ proc[Replay].body = NoAction
    /\ proc[p].pc = "done"

\* ----------------------------------------------------------------- C16
\* the backend holds the grant of payload b
Granted(b) == users[b.login].exists /\ b.role \in users[b.login].roles

\* C16: idempotent retry.  A second delivery of a member_added record whose
\* grant the backend already holds leaves the backend as it is, and does not
\* end as a failure: createUser's already-exists error is caught inside the
\* helper, so the attempt goes on to its normal end (redis.del in the store
\* relay, the 200 response in the plain server) and never to
\* processMembershipEvent's catch.
C16_IdempotentRetry ==
  [][\A p \in Procs :
       (/\ proc[p].pc = "createUser" /\ proc'[p] # proc[p]
        /\ Granted(proc[p].body))
       => /\ users' = users
          /\ proc'[p].fail \in {"conflict", "unreachable"}
          /\ IF variant = "plain"
             THEN proc'[p].pc = "done" /\ proc'[p].res = 200
             ELSE proc'[p].pc = "del" /\ proc'[p].key = proc[p].key]_vars

\* C16 witness: a record was delivered once (its eventId is in applied), a
\* second attempt on the same record found the principal already there, and
\* is at its redis.del with the grant still in place.
C16_Witness ==
  \E p \in Procs :
    /\ proc[p].pc = "del" /\ proc[p].fail = "conflict"
    /\ proc[p].key \in applied
    /\ proc[p].body.action = "member_added" /\ Granted(proc[p].body)

\* ----------------------------------------------------------------- C17
\* C17 (as claimed): create-if-absent.  When createUser reports that the
\* principal already exists, the delivery still goes on to assign the role.
C17_RoleAssignedWhenUserExists ==
  [][\A p \in Procs :
       (proc[p].pc = "createUser" /\ proc'[p].fail = "conflict")
       => proc'[p].pc = "assignRole"]_vars

\* ----------------------------------------------------------------- C18
\* C18: idempotent retraction.  When deleteUser reports that the principal
\* is already absent, the attempt is not a failure: the backend is left as
\* it is and the attempt goes on to its normal end (redis.del in the store
\* relay, the 200 response in the plain server).  At intake the request is
\* answered 200 and, when Redis answers the DEL, its record is out of the
\* store, so no later enumeration can list it.
C18_IdempotentRetraction ==
  [][/\ \A p \in Procs :
          (proc[p].pc = "deleteUser" /\ proc'[p].fail = "notfound")
          => /\ users' = users
             /\ IF variant = "plain"
                THEN proc'[p].pc = "done" /\ proc'[p].res = 200
                ELSE proc'[p].pc = "del" /\ proc'[p].key = proc[p].key
     /\ \A r \in Reqs :
          (/\ variant = "store" /\ proc'[r].pc = "done"
           /\ proc'[r].body.action = "member_removed"
           /\ proc'[r].fail = "notfound")
          => /\ proc'[r].res = 200
             /\ (~faults /\ OwnKey(r)') => proc'[r].key \notin DOMAIN store']_vars

\* C18 witness: the intake of a member_removed event for an absent principal
\* has answered 200 and its record is gone, in a run where Redis and the PDP
\* answer every call.
C18_Witness ==
  \E r \in Reqs :
    /\ Recorded(r) /\ proc[r].body = RemovedOk /\ proc[r].fail = "notfound"
    /\ proc[r].res = 200 /\ ~Pending(proc[r].key) /\ ~faults
    /\ ~users["alice"].exists

\* ----------------------------------------------------------------- C19
\* C19 (as claimed): record ids are unique and a record is only ever
\* deleted: an intake's redis.set never writes a key that is in the store,
\* and any two intakes, also two in the same clock millisecond, are recorded
\* under different eventIds.
C19_UniqueIds ==
  [][/\ \A r \in Reqs :
          (/\ variant = "store" /\ proc[r].pc = "idle"
           /\ proc'[r].pc = "set" /\ proc'[r].saved)
          => proc'[r].key \notin DOMAIN store
     /\ \A r1, r2 \in Reqs :
          (r1 # r2 /\ proc'[r1].saved /\ proc'[r2].saved)
          => proc'[r1].key # proc'[r2].key]_vars

\* ----------------------------------------------------------------- C20
\* k, with payload b, is the only record the run has seen: found at start
\* with no request received, or written by the only request received
OnlyRecord(k, b) ==
  \/ /\ DOMAIN initial = {k} /\ b = InitialBody(k)
     /\ \A r \in Reqs : proc[r].pc = "idle"
  \/ /\ DOMAIN initial = {}
     /\ \E r \in Reqs :
          /\ proc[r].saved /\ proc[r].key = k /\ proc[r].body = b
          /\ \A q \in Reqs \ {r} : proc[q].pc = "idle"
\* the server runs and no process is in the middle of anything
Quiet ==
  /\ started /\ proc[Replay].pc = "done"
  /\ \A p \in Procs : proc[p].pc \in {"idle", "done"}
\* what one pass over a record with payload b leaves behind, starting from
\* an empty backend, when Redis and the PDP answer every call
SinglePassUsers(b) ==
  IF processMembershipEvent(b) = "createUser"
  THEN [u \in Principals |->
          IF u = b.login THEN [exists |-> TRUE, roles |-> {b.role}]
          ELSE [exists |-> FALSE, roles |-> {}]]
  ELSE [u \in Principals |-> [exists |-> FALSE, roles |-> {}]]
SinglePassKeeps(b) == processMembershipEvent(b) \in {"return", "catch"}
\* whenever every pass over the only record has finished, within its TTL,
\* in a run where every call is answered, the store and the backend are
\* what a single pass leaves behind
RaceOutcome ==
  \A k \in DOMAIN initial \cup {proc[r].key : r \in Reqs}, b \in Bodies :
    (~faults /\ variant = "store" /\ Quiet /\ OnlyRecord(k, b) /\ ~Expired(k))
    => /\ users = SinglePassUsers(b)
       /\ Pending(k) <=> SinglePassKeeps(b)
       /\ DOMAIN store \subseteq {k}

\* C20: racing passes on one record are safe.  Whatever the interleaving of
\* the intake, the replay and the sweep on the same record, a redis.del that
\* finds the record already deleted changes nothing and its caller goes on
\* as after any delete, and once all of them have finished the store and the
\* backend are those a single pass produces.
C20_RacingPassesSafe ==
  [][/\ \A p \in Procs :
          (proc[p].pc = "del" /\ proc'[p].pc # "del" /\ ~Pending(proc[p].key))
          => /\ store' = store /\ users' = users
             /\ proc'[p] = Returned(proc[p], p \in Reqs)
     /\ RaceOutcome']_vars

\* C20 witness: every call was answered, the only record is a member_added
\* event, its intake found the principal already created by a pass racing it
\* on the same record, both have finished, the grant is in place and the
\* record is gone.
C20_Witness ==
  \E r \in Reqs, p \in Passes :
    /\ ~faults /\ Quiet /\ OnlyRecord(proc[r].key, AddedOk)
    /\ proc[r].pc = "done" /\ proc[r].fail = "conflict"
    /\ proc[p].pc = "done" /\ proc[p].body = AddedOk
    /\ Granted(AddedOk) /\ ~Pending(proc[r].key) /\ ~Expired(proc[r].key)

\* ----------------------------------------------------------------- C21
\* every eventId a run can write
AllKeys == InitKeys \cup {StartTime, StartTime + SWEEP_INTERVAL_MS, StartTime + TTL_MS}
\* a sweep is about to read record k and hand it to processMembershipEvent
SweepReads(k) == \E p \in Sweeps : proc[p].pc = "get" /\ proc[p].key = k

InProgress(p) == proc[p].pc \notin {"idle", "done", "aborted"}

\* C22: no operation blocks intake.  In every state in which the server
\* listens and the replay, a sweep or a request handler is in progress, a new
\* request can be accepted, and with Redis answering its record is written:
\* the step that accepts it is enabled (as long as the run has a request
\* left to receive).
C22_IntakeNeverBlocked ==
  (/\ variant = "store" /\ started /\ budget > 0
   /\ \E p \in Procs : InProgress(p))
  => ENABLED (\E r \in Reqs, b \in Bodies :
                /\ PostGithubMembership(r, b, TRUE)
                /\ proc'[r].saved /\ now \in DOMAIN store'
                /\ JSONParse(store'[now].value) = b)

\* C22 witness: one request handler and a pass both wait on a backend call,
\* and a second request has just been accepted and its record written.
C22_Witness ==
  \E r1, r2 \in Reqs, p \in Passes :
    /\ r1 # r2 /\ InCall(proc[r1]) /\ InCall(proc[p])
    /\ proc[r2].pc = "set" /\ proc[r2].saved /\ Pending(proc[r2].key)

\* ----------------------------------------------------------------- C23
\* C23 (as claimed): when the intake's redis.set is rejected, the caller gets
\* the internal-error response (500), the event is not in the store, and the
\* handler makes no delivery attempt for it.
C23_StoreWriteFailure ==
  \A r \in Reqs :
    (variant = "store" /\ proc[r].pc \notin {"idle", "set"} /\ ~proc[r].saved)
    => /\ proc[r].pc = "done" /\ proc[r].res = 500
       /\ proc[r].fail = ""
       /\ OwnKey(r) => ~Pending(proc[r].key)

\* ----------------------------------------------------------------- C24
\* the intake of request r has processed its event successfully: it answered
\* 200 after an attempt without a failed call or a validation error
ProcessedOk(r) ==
  /\ Recorded(r) /\ proc[r].res = 200 /\ proc[r].body.action # ""
  /\ proc[r].fail = ""

\* C24 (as claimed): avoid duplication.  When Redis and the PDP answer every
\* call, an event that has been processed successfully is out of the store,
\* so a sweep that starts afterwards does not find it: at the step in which
\* the timer starts a sweep, no successfully processed event is pending.
C24_NoDuplication ==
  [][\A r \in Reqs, p \in Sweeps :
       (/\ ~faults /\ ProcessedOk(r) /\ OwnKey(r)
        /\ proc[p].pc # "keys" /\ proc'[p].pc = "keys")
       => ~Pending(proc[r].key)]_vars

\* ----------------------------------------------------------------- C25
\* record k is pending with a member_added or member_removed payload whose
\* fields are all there
PendingValidGrant(k) ==
  /\ Pending(k)
  /\ IsGrant(JSONParse(store[k].value)) /\ WellFormed(JSONParse(store[k].value))

C26_NoBackoffNoLimit ==
  [][\A p \in Sweeps :
       /\ (proc[p].pc = "keys" /\ proc'[p].pc \notin {"keys", "aborted"})
            => Listed(proc'[p]) = DOMAIN store
       /\ (/\ proc[p].pc = "get" /\ proc'[p] # proc[p]
           /\ proc'[p].pc # "aborted" /\ Pending(proc[p].key))
            => LET b == JSONParse(store[proc[p].key].value)
                   d == processMembershipEvent(b)
               IN /\ proc'[p].body = b
                  /\ d \in {"createUser", "deleteUser", "del"}
                       => (proc'[p].pc = d /\ proc'[p].key = proc[p].key)
                  /\ d = "catch" => proc'[p].failed]_vars

\* C26 witness: the replay's attempt on an invalid record found at start
\* failed, the sweep attempted the same record again and failed again, and
\* the record is still pending for the next sweep.
C26_Witness ==
  \E k \in DOMAIN initial, p \in Sweeps :
    /\ Invalid(InitialBody(k)) /\ Pending(k) /\ DOMAIN store = {k}
    /\ proc[Replay].pc = "done" /\ proc[Replay].failed
    /\ proc[Replay].body = InitialBody(k)
    /\ proc[p].pc = "done" /\ proc[p].failed /\ proc[p].body = InitialBody(k)
    /\ \A r \in Reqs : proc[r].pc = "idle"

\* ----------------------------------------------------------------- C27
\* process p takes a step of a delivery attempt: its redis.get, a backend
\* call or its redis.del is answered
AttemptStep(p) ==
  /\ proc[p].pc \in {"get", "createUser", "assignRole", "deleteUser", "del"}
  /\ proc'[p] # proc[p]

\* C27: an attempt leaves the record untouched unless it deletes it.  No
\* step of a delivery attempt writes a record or changes a stored payload or
\* expiry: every record in the store after the step was there before with
\* the same value and the same expiry, and the only record a step can remove
\* is the attempt's own, at its redis.del.
C27_AttemptLeavesRecordUntouched ==
  [][\A p \in Procs :
       AttemptStep(p) =>
         /\ \A k \in DOMAIN store' : k \in DOMAIN store /\ store'[k] = store[k]
         /\ \A k \in DOMAIN store \ DOMAIN store' :
              k = proc[p].key /\ proc[p].pc = "del"]_vars

\* C27 witness: the intake's attempt on an invalid event failed, the clock
\* has advanced, and the record is in the store with the payload and the
\* expiry it was written with.
C27_Witness ==
  \E r \in Reqs :
    /\ Recorded(r) /\ proc[r].fail = "invalid" /\ now > proc[r].key
    /\ Pending(proc[r].key)
    /\ store[proc[r].key] = [value |-> JSONStringify(proc[r].body),
                             expiresAt |-> proc[r].key + TTL_MS]

\* ----------------------------------------------------------------- C28
\* pass p is reading a listed key that is no longer in the store (deleted by
\* another process, or expired)
ReadsGone(p) == proc[p].pc = "get" /\ ~Pending(proc[p].key)

\* C28: a listed record that is gone before the pass reads it is skipped.
\* When the redis.get of a sweep or of the replay is answered for a key that
\* is no longer in the store, the step changes neither the backend nor the
\* store, starts no backend call and no redis.del, and makes no attempt (the
\* pass's last attempted payload is unchanged); unless Redis rejected the
\* read, which only happens when Redis can fail, the pass goes on to read
\* the next listed key, or ends when none is left.
C28_GoneRecordSkipped ==
  [][\A p \in Passes :
       (ReadsGone(p) /\ proc'[p] # proc[p]) =>
         /\ users' = users /\ store' = store /\ applied' = applied
         /\ proc'[p].pc \in {"get", "done", "aborted"}
         /\ proc'[p].body = proc[p].body
         /\ ~faults => proc'[p].pc # "aborted"
         /\ proc'[p].pc # "aborted" =>
              IF proc[p].keys = <<>> THEN proc'[p].pc = "done"
              ELSE /\ proc'[p].pc = "get"
                   /\ proc'[p].key = Head(proc[p].keys)
                   /\ proc'[p].keys = Tail(proc[p].keys)]_vars

\* C28 witness: a pass is about to read a listed key whose record another
\* pass has delivered and deleted before the TTL ran out, and has a further
\* listed record to go on with.
C28_Witness ==
  \E p \in Passes, q \in Passes :
    /\ p # q /\ ReadsGone(p) /\ ~Expired(proc[p].key)
    /\ proc[p].key \in applied /\ proc[q].pc = "done"
    /\ proc[p].keys # <<>> /\ Pending(Head(proc[p].keys))

\* ----------------------------------------------------------------- C29
\* record k is in the store and its payload has no action
ActionlessRecord(k) == Pending(k) /\ JSONParse(store[k].value).action = ""

\* C29 (as claimed): a stored record whose payload has no action is never
\* passed to the backend and never deleted by the intake, a sweep or the
\* replay; only TTL expiry removes it.  No process is in a backend call or in
\* a redis.del with a payload that has no action, and in every step a stored
\* record without an action stays in the store under its eventId with the
\* same expiry unless the step is the clock reaching that expiry.
C29_ActionlessRecordOnlyExpires ==
  /\ [][\A p \in Procs : (InCall(proc'[p]) \/ proc'[p].pc = "del") => proc'[p].body.action # ""]_vars
  /\ [][\A k \in DOMAIN store :
          ActionlessRecord(k) =>
            \/ k \in DOMAIN store' /\ store'[k].expiresAt = store[k].expiresAt
            \/ now' >= store[k].expiresAt]_vars

====
